---- MODULE Spec2Model ----
(***************************************************************************)
(* Water-quality pipeline: the batch cleaner / ingestion scripts           *)
(* (src/main.py, src/app/main.py) and the statistics and outlier           *)
(* endpoints of the Flask API (src/app/app.py), with the requests the      *)
(* dashboard sends (src/client/streamlit.py).                              *)
(*                                                                         *)
(* Numbers are exact rationals kept as scaled integers: sample values are  *)
(* integers, percentiles are kept times 4, k is kept in tenths.  Binary    *)
(* floating-point rounding is not modelled.                                *)
(***************************************************************************)
EXTENDS Integers, Sequences, FiniteSets, TLC

VARIABLES
    csv_files,   \* the files glob found, in the order they were read
    df,          \* the combined frame after numeric coercion
    df_clean,    \* the cleaned frame of the current / last run
    report,      \* the printed cleaning report
    entry,       \* which ingestion script is running ("none" when idle)
    pc,          \* position of the running script
    store,       \* the asv_1 collection: a sequence of documents
    req,         \* the request the API served last
    response     \* the response it returned

vars == <<csv_files, df, df_clean, report, entry, pc, store, req, response>>

----------------------------------------------------------------------------
(* Bounds *)

\* at most this many CSV files in source_data/
MaxFiles == 2

----------------------------------------------------------------------------
(* Generic helpers *)

Range(s) == {s[i] : i \in DOMAIN s}

RECURSIVE SumSeq(_)
SumSeq(s) == IF s = <<>> THEN 0 ELSE Head(s) + SumSeq(Tail(s))

RECURSIVE SumSqSeq(_)
SumSqSeq(s) == IF s = <<>> THEN 0 ELSE Head(s) * Head(s) + SumSqSeq(Tail(s))

RECURSIVE ConcatAll(_)
ConcatAll(ss) == IF ss = <<>> THEN <<>> ELSE Head(ss) \o ConcatAll(Tail(ss))

----------------------------------------------------------------------------
(* Column names *)

NUMERIC_COLS == <<"Temperature (c)", "Salinity (ppt)", "ODO mg/L">>

NumericColSet == Range(NUMERIC_COLS)

CsvColumns == NumericColSet \cup {"Date m/d/y", "Latitude", "Longitude"}

\* the column mapping src/app/main.py applies before inserting
RenameMap ==
    [c \in CsvColumns |->
        CASE c = "Temperature (c)" -> "temperature"
          [] c = "Salinity (ppt)" -> "salinity"
          [] c = "ODO mg/L" -> "odo"
          [] c = "Date m/d/y" -> "date"
          [] c = "Latitude" -> "latitude"
          [] c = "Longitude" -> "longitude"]

----------------------------------------------------------------------------
(* Source data: CSV cells are text *)

Row(d, t, s, o) ==
    [c \in CsvColumns |->
        CASE c = "Temperature (c)" -> t
          [] c = "Salinity (ppt)" -> s
          [] c = "ODO mg/L" -> o
          [] c = "Date m/d/y" -> d
          [] c = "Latitude" -> "27.9"
          [] c = "Longitude" -> "-82.4"]

\* nine readings at 20 and one at 100: |z| of the 100 is exactly 3
FileEdge ==
    << Row("e01", "20", "30", "8"), Row("e02", "20", "30", "8"),
       Row("e03", "20", "30", "8"), Row("e04", "20", "30", "8"),
       Row("e05", "100", "30", "8"), Row("e06", "20", "30", "8"),
       Row("e07", "20", "30", "8"), Row("e08", "20", "30", "8"),
       Row("e09", "20", "30", "8"), Row("e10", "20", "30", "8") >>

\* an unparseable temperature and an empty salinity cell
FileBad ==
    << Row("b01", "abc", "30", "8"), Row("b02", "20", "", "8") >>

\* temperature 1,2,3,4,5,100; salinity with its maximum on the IQR bound
FileScen ==
    << Row("s01", "1", "0", "8"), Row("s02", "2", "4", "8"),
       Row("s03", "3", "8", "8"), Row("s04", "4", "12", "8"),
       Row("s05", "5", "16", "8"), Row("s06", "100", "30", "8") >>

FileNames == {"edge.csv", "bad.csv", "scen.csv"}

FileContent(f) ==
    CASE f = "edge.csv" -> FileEdge
      [] f = "bad.csv" -> FileBad
      [] f = "scen.csv" -> FileScen

\* the directory listings glob can return: distinct files, any order
FileSeqs ==
    UNION { { fs \in [1..n -> FileNames] :
                \A i, j \in 1..n : i # j => fs[i] # fs[j] } : n \in 1..MaxFiles }

\* pd.concat of the frames read from the files
ReadAll(fs) == ConcatAll([i \in DOMAIN fs |-> FileContent(fs[i])])

----------------------------------------------------------------------------
(* Numeric coercion: pd.to_numeric(errors="coerce") *)

NaN == [nan |-> TRUE, v |-> 0]
Num(x) == [nan |-> FALSE, v |-> x]

Numerals ==
    ("0" :> 0) @@ ("1" :> 1) @@ ("2" :> 2) @@ ("3" :> 3) @@ ("4" :> 4) @@
    ("5" :> 5) @@ ("8" :> 8) @@ ("12" :> 12) @@ ("16" :> 16) @@
    ("20" :> 20) @@ ("30" :> 30) @@ ("100" :> 100)

ToNumeric(cell) ==
    IF cell \in DOMAIN Numerals THEN Num(Numerals[cell]) ELSE NaN

Coerce(frame) ==
    [i \in DOMAIN frame |->
        [c \in CsvColumns |->
            IF c \in NumericColSet THEN ToNumeric(frame[i][c]) ELSE frame[i][c]]]

----------------------------------------------------------------------------
(* Batch cleaning: z-scores over the whole combined dataset *)

\* the non-NaN values of a column, which mean() and std() run over
ColValues(frame, c) ==
    LET present == SelectSeq(frame, LAMBDA r : ~r[c].nan)
    IN  [i \in DOMAIN present |-> present[i][c].v]

\* means and stds of one column as exact sums: mean = sum/n and
\* std(ddof=0)^2 = (n*sumsq - sum^2)/n^2 ; std is NaN when n = 0, and
\* replace(0, nan) makes it NaN when it is 0
ColMoments(frame, c) ==
    LET xs == ColValues(frame, c)
        n == Len(xs)
        s == SumSeq(xs)
    IN  [n |-> n, sum |-> s, d |-> n * SumSqSeq(xs) - s * s]

\* threshold in tenths
THRESH == 30

\* variant: the threshold itself counts as exceeded
ZAbsExceedsInclusive(cell, m, k10) ==
    /\ ~cell.nan
    /\ m.n > 0
    /\ m.d > 0
    /\ \/ k10 < 0
       \/ 100 * (m.n * cell.v - m.sum) * (m.n * cell.v - m.sum) >= k10 * k10 * m.d

\* z.abs() > THRESH for one cell; any comparison with NaN is False
ZAbsExceeds(cell, m, k10) ==
    /\ ~cell.nan
    /\ m.n > 0
    /\ m.d > 0
    /\ \/ k10 < 0
       \/ 100 * (m.n * cell.v - m.sum) * (m.n * cell.v - m.sum) > k10 * k10 * m.d

IsOutlierRow(frame, r) ==
    \E c \in NumericColSet : ZAbsExceeds(r[c], ColMoments(frame, c), THRESH)

DropOutliers(frame) == SelectSeq(frame, LAMBDA r : ~IsOutlierRow(frame, r))

DropNa(frame) == SelectSeq(frame, LAMBDA r : \A c \in NumericColSet : ~r[c].nan)

CleanFrame(frame) == DropNa(DropOutliers(frame))

CleaningReport(frame) ==
    LET total_rows == Len(frame)
        removed_rows == Cardinality({i \in DOMAIN frame : IsOutlierRow(frame, frame[i])})
    IN  [rows_total |-> total_rows,
         rows_removed |-> removed_rows,
         rows_remaining |-> total_rows - removed_rows]

----------------------------------------------------------------------------
(* Persisting *)

Rename(frame) ==
    [i \in DOMAIN frame |->
        [k \in {RenameMap[c] : c \in CsvColumns} |->
            frame[i][CHOOSE c \in CsvColumns : RenameMap[c] = k]]]

\* df_clean.to_dict("records"): one document per row, keyed by column name;
\* a numeric cell becomes a number
NumericKeys == NumericColSet \cup {RenameMap[c] : c \in NumericColSet}

ToDictRecords(frame) ==
    [i \in DOMAIN frame |->
        [k \in DOMAIN frame[i] |->
            IF k \in NumericKeys THEN frame[i][k].v ELSE frame[i][k]]]

NoReport == [rows_total |-> 0, rows_removed |-> 0, rows_remaining |-> 0]
NoRequest == [kind |-> "none"]
NoResponse == [kind |-> "none", status |-> 0]

Entries == {"root", "app"}

\* Lines 10-53 of either script: load, coerce, report, clean, write the CSV
LoadAndClean(e, fs) ==
    /\ pc = "idle"
    /\ csv_files' = fs
    /\ df' = Coerce(ReadAll(fs))
    /\ report' = CleaningReport(df')
    /\ df_clean' = CleanFrame(df')
    /\ entry' = e
    /\ pc' = "cleaned"
    /\ UNCHANGED <<store, req, response>>

\* variant: the clear selects by the API's field name and so leaves the
\* documents keyed by the CSV column names
DeleteManyByField ==
    /\ pc = "cleaned"
    /\ store' = SelectSeq(store, LAMBDA d : "temperature" \notin DOMAIN d)
    /\ pc' = "cleared"
    /\ UNCHANGED <<csv_files, df, df_clean, report, entry, req, response>>

\* collection.delete_many({})
DeleteMany ==
    /\ pc = "cleaned"
    /\ store' = <<>>
    /\ pc' = "cleared"
    /\ UNCHANGED <<csv_files, df, df_clean, report, entry, req, response>>

\* (rename, in src/app/main.py only,) to_dict and insert_many, which adds
\* the records to whatever the collection holds
InsertMany ==
    /\ pc = "cleared"
    /\ df_clean' = IF entry = "app" THEN Rename(df_clean) ELSE df_clean
    /\ store' = store \o ToDictRecords(df_clean')
    /\ pc' = "idle"
    /\ entry' = "none"
    /\ UNCHANGED <<csv_files, df, report, req, response>>

\* the script dies (store unreachable, interrupted) before it finishes
Abort ==
    /\ pc \in {"cleaned", "cleared"}
    /\ pc' = "idle"
    /\ entry' = "none"
    /\ UNCHANGED <<csv_files, df, df_clean, report, store, req, response>>

InitIngest ==
    /\ csv_files = <<>>
    /\ df = <<>>
    /\ df_clean = <<>>
    /\ report = NoReport
    /\ entry = "none"
    /\ pc = "idle"
    /\ store = <<>>
    /\ req = NoRequest
    /\ response = NoResponse

NextIngest ==
    \/ \E e \in Entries, fs \in FileSeqs : LoadAndClean(e, fs)
    \/ DeleteMany
    \/ InsertMany
    \/ Abort

SpecIngest == InitIngest /\ [][NextIngest]_vars

----------------------------------------------------------------------------
(* The API: request parameters are text, None when absent *)

None == "<none>"

\* str.lower() on the selectors tried here
Lower(s) ==
    CASE s = "IQR" -> "iqr"
      [] s = "Z-Score" -> "z-score"
      [] OTHER -> s

\* float(k_param), in tenths; text outside the table raises ValueError
FloatTexts ==
    ("-1" :> -10) @@ ("0" :> 0) @@ ("1.5" :> 15) @@ ("3.0" :> 30)

ParsesAsFloat(t) == t \in DOMAIN FloatTexts

ApiFields == <<"temperature", "salinity", "odo">>

\* collection.find({field: {"$ne": None}}): the documents that have the
\* field; inserted documents never hold a null there (dropna ran first)
Find(coll, field) == SelectSeq(coll, LAMBDA d : field \in DOMAIN d)

FieldValues(docs, field) == [i \in DOMAIN docs |-> docs[i][field]]

RECURSIVE Insert(_, _)
Insert(x, s) ==
    IF s = <<>> THEN <<x>>
    ELSE IF x <= Head(s) THEN <<x>> \o s
    ELSE <<Head(s)>> \o Insert(x, Tail(s))

RECURSIVE Sort(_)
Sort(s) == IF s = <<>> THEN <<>> ELSE Insert(Head(s), Sort(Tail(s)))

\* np.percentile(values, 25 * q4), default linear method, times 4:
\* virtual index q4*(n-1)/4 into the sorted values, interpolated
Percentile4(values, q4) ==
    LET a == Sort(values)
        pos == q4 * (Len(a) - 1)
        j == pos \div 4
        r == pos % 4
    IN  IF r = 0 THEN 4 * a[j + 1]
        ELSE 4 * a[j + 1] + r * (a[j + 2] - a[j + 1])

\* variant: a value on a bound is flagged
IqrFlagInclusive(val, q1x4, q3x4, k10) ==
    LET iqr == q3x4 - q1x4
        lower_bound == 10 * q1x4 - k10 * iqr
        upper_bound == 10 * q3x4 + k10 * iqr
    IN  40 * val <= lower_bound \/ 40 * val >= upper_bound

\* val < lower_bound or val > upper_bound, everything times 40
IqrFlag(val, q1x4, q3x4, k10) ==
    LET iqr == q3x4 - q1x4
        lower_bound == 10 * q1x4 - k10 * iqr
        upper_bound == 10 * q3x4 + k10 * iqr
    IN  40 * val < lower_bound \/ 40 * val > upper_bound

\* variant: a z-score equal to k is flagged
ZFlagInclusive(val, n, sum, d, k10) ==
    \/ k10 < 0
    \/ 100 * (n * val - sum) * (n * val - sum) >= k10 * k10 * d

\* abs((val - mean) / std) > k with mean = sum/n, std = sqrt(d)/n, std # 0
ZFlag(val, n, sum, d, k10) ==
    \/ k10 < 0
    \/ 100 * (n * val - sum) * (n * val - sum) > k10 * k10 * d

\* variant: the flagged indices come out last first
OutlierIndicesReversed(values, method, k10) ==
    LET idx == [i \in DOMAIN values |-> Len(values) + 1 - i]
    IN  IF method = "iqr"
        THEN LET q1 == Percentile4(values, 1)
                 q3 == Percentile4(values, 3)
             IN  SelectSeq(idx, LAMBDA i : IqrFlag(values[i], q1, q3, k10))
        ELSE LET n == Len(values)
                 sum == SumSeq(values)
                 d == n * SumSqSeq(values) - sum * sum
             IN  IF d = 0 THEN <<>>
                 ELSE SelectSeq(idx, LAMBDA i : ZFlag(values[i], n, sum, d, k10))

\* the indices the detection loop appends, in loop order
OutlierIndices(values, method, k10) ==
    LET idx == [i \in DOMAIN values |-> i]
    IN  IF method = "iqr"
        THEN LET q1 == Percentile4(values, 1)
                 q3 == Percentile4(values, 3)
             IN  SelectSeq(idx, LAMBDA i : IqrFlag(values[i], q1, q3, k10))
        ELSE LET n == Len(values)
                 sum == SumSeq(values)
                 d == n * SumSqSeq(values) - sum * sum
             IN  IF d = 0 THEN <<>>
                 ELSE SelectSeq(idx, LAMBDA i : ZFlag(values[i], n, sum, d, k10))

Error(msg) == [kind |-> "error", status |-> 400, error |-> msg]

OutlierResult(outliers) ==
    [kind |-> "outliers", status |-> 200,
     count |-> Len(outliers), outliers |-> outliers]

\* the response get_outliers returns for the query parameters, over coll
OutliersResponse(coll, field, method_arg, k_arg) ==
    LET method == Lower(IF method_arg = None THEN "iqr" ELSE method_arg)
        k_param == IF k_arg = None THEN "1.5" ELSE k_arg
    IN  IF field = None \/ field = "" THEN Error("field parameter is required")
        ELSE IF field \notin Range(ApiFields)
        THEN Error("field must be one of: temperature, salinity, odo")
        ELSE IF method \notin {"iqr", "z-score"}
        THEN Error("method must be 'iqr' or 'z-score'")
        ELSE IF ~ParsesAsFloat(k_param) THEN Error("k must be a valid number")
        ELSE LET docs == Find(coll, field)
                 values == FieldValues(docs, field)
             IN  IF Len(docs) = 0 THEN OutlierResult(<<>>)
                 ELSE LET outlier_indices ==
                              OutlierIndices(values, method, FloatTexts[k_param])
                      IN  OutlierResult([j \in DOMAIN outlier_indices |->
                                            docs[outlier_indices[j]]])

\* numbers in a stats entry: exact fractions; null is JSON null
Frac(num, den) == [null |-> FALSE, num |-> num, den |-> den]
Null == [null |-> TRUE, num |-> 0, den |-> 1]

\* variant: zeros instead of nulls for a field without values
EmptyStatsEntryZeros ==
    [count |-> 0, mean |-> Frac(0, 1), min |-> Frac(0, 1), max |-> Frac(0, 1),
     percentiles |-> ("25" :> Frac(0, 4)) @@ ("50" :> Frac(0, 4)) @@ ("75" :> Frac(0, 4))]

EmptyStatsEntry ==
    [count |-> 0, mean |-> Null, min |-> Null, max |-> Null,
     percentiles |-> ("25" :> Null) @@ ("50" :> Null) @@ ("75" :> Null)]

RECURSIVE MinSeq(_)
MinSeq(s) ==
    IF Len(s) = 1 THEN s[1]
    ELSE LET m == MinSeq(Tail(s)) IN IF Head(s) < m THEN Head(s) ELSE m

RECURSIVE MaxSeq(_)
MaxSeq(s) ==
    IF Len(s) = 1 THEN s[1]
    ELSE LET m == MaxSeq(Tail(s)) IN IF Head(s) > m THEN Head(s) ELSE m

StatsEntry(values) ==
    IF Len(values) = 0 THEN EmptyStatsEntry
    ELSE [count |-> Len(values),
          mean |-> Frac(SumSeq(values), Len(values)),
          min |-> Frac(MinSeq(values), 1),
          max |-> Frac(MaxSeq(values), 1),
          percentiles |-> ("25" :> Frac(Percentile4(values, 1), 4)) @@
                          ("50" :> Frac(Percentile4(values, 2), 4)) @@
                          ("75" :> Frac(Percentile4(values, 3), 4))]

StatsResponse(coll) ==
    [kind |-> "stats", status |-> 200,
     stats |-> [f \in Range(ApiFields) |->
                   StatsEntry(FieldValues(Find(coll, f), f))]]

\* GET /api/stats
GetStats ==
    /\ req' = [kind |-> "stats"]
    /\ response' = StatsResponse(store)
    /\ UNCHANGED <<csv_files, df, df_clean, report, entry, pc, store>>

\* GET /api/outliers
GetOutliers(field, method_arg, k_arg) ==
    /\ req' = [kind |-> "outliers", field |-> field,
               method |-> method_arg, k |-> k_arg, from |-> "http"]
    /\ response' = OutliersResponse(store, field, method_arg, k_arg)
    /\ UNCHANGED <<csv_files, df, df_clean, report, entry, pc, store>>

\* the dashboard's "Detect Outliers" button: K defaults by method in the
\* number input and is always sent
DashboardMethods == {"zscore", "iqr"}
DashboardK(outlier_method) == IF outlier_method = "zscore" THEN "3.0" ELSE "1.5"

DetectOutliers(outlier_field, outlier_method) ==
    /\ req' = [kind |-> "outliers", field |-> outlier_field,
               method |-> outlier_method, k |-> DashboardK(outlier_method),
               from |-> "dashboard"]
    /\ response' = OutliersResponse(store, outlier_field, outlier_method,
                                    DashboardK(outlier_method))
    /\ UNCHANGED <<csv_files, df, df_clean, report, entry, pc, store>>

\* the keys the dashboard's statistics panel reads from a field's entry
DashboardStatKeys == {"min", "max", "avg", "stddev"}

\* query parameters tried
FieldArgs == {None, "temperature", "salinity", "odo", "ph"}
MethodArgs == {None, "iqr", "IQR", "zscore", "z-score", "foo"}
KArgs == {None, "abc", "-1", "0", "1.5", "3.0"}

\* what a finished run of either script leaves in the collection
IngestedStore(e, fs) ==
    LET cleaned == CleanFrame(Coerce(ReadAll(fs)))
    IN  ToDictRecords(IF e = "app" THEN Rename(cleaned) ELSE cleaned)

\* the API serves whatever a finished ingestion run left (or nothing yet)
InitApi ==
    /\ \E e \in Entries, fs \in FileSeqs :
          /\ csv_files = fs
          /\ df = Coerce(ReadAll(fs))
          /\ df_clean = (IF e = "app" THEN Rename(CleanFrame(df)) ELSE CleanFrame(df))
          /\ report = CleaningReport(df)
          /\ store \in {<<>>, IngestedStore(e, fs)}
    /\ entry = "none"
    /\ pc = "idle"
    /\ req = NoRequest
    /\ response = NoResponse

NextApi ==
    \/ GetStats
    \/ \E f \in FieldArgs, m \in MethodArgs, k \in KArgs : GetOutliers(f, m, k)
    \/ \E f \in Range(ApiFields), m \in DashboardMethods : DetectOutliers(f, m)

Spec == InitApi /\ [][NextApi]_vars

----------------------------------------------------------------------------
(* Reference definitions used by the properties, written from the          *)
(* statistics themselves rather than from the code's formulas              *)

\* the i-th smallest sample (i from 1), by counting
OrderStat(xs, i) ==
    CHOOSE v \in Range(xs) :
        /\ Cardinality({j \in DOMAIN xs : xs[j] < v}) < i
        /\ Cardinality({j \in DOMAIN xs : xs[j] <= v}) >= i

\* quartile q (1 or 3) times 4: linear interpolation between the two order
\* statistics around position q*(n-1)/4
Quartile4(xs, q) ==
    LET h == q * (Len(xs) - 1)
        lo == (h \div 4) + 1
        hi == IF h % 4 = 0 THEN lo ELSE lo + 1
    IN  (4 - (h % 4)) * OrderStat(xs, lo) + (h % 4) * OrderStat(xs, hi)

\* strictly outside [Q1 - k*IQR, Q3 + k*IQR], with k in tenths
OutsideIqrBounds(xs, v, k10) ==
    LET q1 == Quartile4(xs, 1)
        q3 == Quartile4(xs, 3)
    IN  \/ 40 * v < 10 * q1 - k10 * (q3 - q1)
        \/ 40 * v > 10 * q3 + k10 * (q3 - q1)

\* n * (x - mean), and the sum of its squares = n^3 * variance
Dev(xs, v) == Len(xs) * v - SumSeq(xs)
DevSq(xs) == SumSeq([i \in DOMAIN xs |-> Dev(xs, xs[i]) * Dev(xs, xs[i])])

\* n^2 * variance; the sum of squares is n * (n*sumsq - sum^2), so the
\* division is exact
VarN2(xs) == DevSq(xs) \div Len(xs)

\* |v - mean| / stddev > k, for stddev # 0 and k in tenths
ZScoreAbove(xs, v, k10) ==
    \/ k10 < 0
    \/ 100 * Dev(xs, v) * Dev(xs, v) > k10 * k10 * VarN2(xs)

\* the samples of a field: the values of the documents that carry it
HasField(d, f) == f \in DOMAIN d
Holders(f) == {i \in DOMAIN store : HasField(store[i], f)}
Samples(f) ==
    LET held == SelectSeq(store, LAMBDA d : HasField(d, f))
    IN  [i \in DOMAIN held |-> held[i][f]]

ValidField(f) == f \in {"temperature", "salinity", "odo"}
NumericK(k) == k \in {"-1", "0", "1.5", "3.0"}
KTenths(k) == CASE k = "-1" -> -10 [] k = "0" -> 0 [] k = "1.5" -> 15 [] k = "3.0" -> 30

OutlierReq == req.kind = "outliers"

\* a request the detector classifies by IQR / by z-score with a numeric k
IqrReq ==
    /\ OutlierReq
    /\ ValidField(req.field)
    /\ req.method \in {"iqr", "IQR"}
    /\ NumericK(req.k)

ZReq ==
    /\ OutlierReq
    /\ ValidField(req.field)
    /\ req.method = "z-score"
    /\ NumericK(req.k)

Returned == Range(response.outliers)

----------------------------------------------------------------------------
(* API properties *)

\* C1: with method IQR a document is returned as an outlier iff its value is
\* strictly below Q1 - k*IQR or strictly above Q3 + k*IQR (quartiles by
\* linear interpolation between order statistics); a value on a bound is not
\* returned.  For samples 1,2,3,4,5,100 and k = 1.5 the quartiles are 2.25
\* and 4.75 and the only outlier is the sixth sample, 100.
C1_IqrRule ==
    IqrReq =>
        LET xs == Samples(req.field)
            k10 == KTenths(req.k)
        IN  /\ response.kind = "outliers"
            /\ response.status = 200
            /\ \A i \in Holders(req.field) :
                  store[i] \in Returned <=>
                      OutsideIqrBounds(xs, store[i][req.field], k10)
            /\ Returned \subseteq {store[i] : i \in Holders(req.field)}
            /\ (xs = <<1, 2, 3, 4, 5, 100>> /\ k10 = 15) =>
                  /\ Percentile4(xs, 1) = 9 /\ Percentile4(xs, 3) = 19
                  /\ response.count = 1
                  /\ response.outliers[1] = Find(store, req.field)[6]

C1_Witness ==
    /\ IqrReq
    /\ req.k = "1.5"
    /\ Samples(req.field) = <<1, 2, 3, 4, 5, 100>>
    /\ response.count = 1
    /\ response.outliers[1][req.field] = 100

\* C2: with the z-score method, a sample set whose population standard
\* deviation is 0 yields no outliers; otherwise a document is returned iff
\* |value - mean| / stddev is strictly greater than k, mean and stddev taken
\* over the whole sample set.
C2_ZScoreRule ==
    ZReq =>
        LET xs == Samples(req.field)
            k10 == KTenths(req.k)
        IN  /\ response.kind = "outliers"
            /\ response.status = 200
            /\ DevSq(xs) = 0 => (response.count = 0 /\ response.outliers = <<>>)
            /\ DevSq(xs) # 0 =>
                  \A i \in Holders(req.field) :
                      store[i] \in Returned <=>
                          ZScoreAbove(xs, store[i][req.field], k10)
            /\ Returned \subseteq {store[i] : i \in Holders(req.field)}

C2_Witness ==
    /\ ZReq
    /\ req.k = "1.5"
    /\ DevSq(Samples(req.field)) # 0
    /\ response.count = 1
    /\ response.outliers[1][req.field] = 100

\* C3: a request whose k is non-numeric or numeric but not positive ends in
\* a validation error, never in an outlier result.
C3_BadKRejected ==
    (OutlierReq /\ req.k \in {"abc", "-1", "0"}) =>
        (response.kind = "error" /\ response.status = 400)

\* C4: with no k given the sensitivity is 1.5 for IQR and 3.0 for z-score:
\* the response equals the one an explicit k of that value gives.
C4_DefaultKByMethod ==
    (OutlierReq /\ req.k = None /\ response.status = 200) =>
        response = OutliersResponse(store, req.field, req.method,
                       IF Lower(IF req.method = None THEN "iqr" ELSE req.method) = "iqr"
                       THEN "1.5" ELSE "3.0")

\* C5: the detector accepts exactly the selectors "iqr" and "zscore": a
\* "zscore" request is classified by the z-score rule, any other selector is
\* a validation error.
C5_MethodSelectors ==
    (OutlierReq /\ ValidField(req.field) /\ req.k \in {"1.5", "3.0"}
                /\ req.method # None) =>
        /\ req.method \in {"iqr", "IQR"} => response.status = 200
        /\ req.method = "zscore" =>
              /\ response.status = 200
              /\ LET xs == Samples(req.field)
                 IN  \A i \in Holders(req.field) :
                        store[i] \in Returned <=>
                            (DevSq(xs) # 0 /\
                             ZScoreAbove(xs, store[i][req.field], KTenths(req.k)))
        /\ req.method \in {"z-score", "foo"} => response.status = 400

\* C6: an empty sample set is a zero result, not an error: the summary of a
\* field no document carries has count 0 and null mean, min, max and
\* quartiles, and outlier detection on such a field succeeds with count 0
\* and no outliers, for either method.
C6_EmptyIsZeroResult ==
    /\ (req.kind = "stats") =>
          /\ response.status = 200
          /\ \A f \in {"temperature", "salinity", "odo"} :
                /\ response.stats[f].count = Cardinality(Holders(f))
                /\ Holders(f) = {} =>
                      /\ response.stats[f].mean.null
                      /\ response.stats[f].min.null
                      /\ response.stats[f].max.null
                      /\ \A q \in {"25", "50", "75"} :
                            response.stats[f].percentiles[q].null
    /\ ((IqrReq \/ ZReq) /\ Holders(req.field) = {}) =>
          /\ response.kind = "outliers"
          /\ response.status = 200
          /\ response.count = 0
          /\ response.outliers = <<>>

C6_Witness ==
    /\ req.kind = "stats"
    /\ store # <<>>
    /\ Holders("temperature") = {}
    /\ response.stats["temperature"].count = 0
    /\ response.stats["temperature"].mean.null

\* C7: the statistics of a field with at least one value include the
\* population standard deviation, and every key the dashboard reads from a
\* field's entry is present.
C7_StatsHaveStddev ==
    (req.kind = "stats") =>
        \A f \in {"temperature", "salinity", "odo"} :
            response.stats[f].count > 0 =>
                /\ "stddev" \in DOMAIN response.stats[f]
                /\ DashboardStatKeys \subseteq DOMAIN response.stats[f]

\* the outlier rule of the request's method for one sample value
Flagged(xs, v) ==
    IF req.method = "z-score"
    THEN DevSq(xs) # 0 /\ ZScoreAbove(xs, v, KTenths(req.k))
    ELSE OutsideIqrBounds(xs, v, KTenths(req.k))

\* C12: the outlier operation returns the flagged observations in the order
\* they were read, not sorted by value; each returned document is the
\* source observation of a flagged sample (sample i and document i are the
\* same observation), so the result is exactly the stored documents whose
\* field value satisfies the rule, and count is its length.
C12_SourceDocsInReadOrder ==
    (IqrReq \/ ZReq) =>
        LET f == req.field
            xs == Samples(f)
        IN  /\ response.kind = "outliers"
            /\ response.outliers =
                  SelectSeq(store, LAMBDA d : HasField(d, f) /\ Flagged(xs, d[f]))
            /\ response.count = Len(response.outliers)
            /\ \A j \in DOMAIN response.outliers :
                  \E i \in Holders(f) :
                      /\ response.outliers[j] = store[i]
                      /\ Flagged(xs, store[i][f])

\* several documents returned, in read order and not in order of value
C12_Witness ==
    /\ IqrReq \/ ZReq
    /\ response.count >= 3
    /\ \E j \in 1..(response.count - 1) :
          response.outliers[j][req.field] > response.outliers[j + 1][req.field]
    /\ \E j \in 1..(response.count - 1) :
          response.outliers[j][req.field] < response.outliers[j + 1][req.field]
    /\ response.count < Cardinality(Holders(req.field))

----------------------------------------------------------------------------
(* Ingestion properties *)

\* the raw rows the running script read, as text
RawRows == ReadAll(csv_files)

IsNumeral(cell) == cell \in DOMAIN Numerals

\* the parsed values of column c over the rows whose cell parses
RawColumn(c) ==
    LET present == SelectSeq(RawRows, LAMBDA r : IsNumeral(r[c]))
    IN  [i \in DOMAIN present |-> Numerals[present[i][c]]]

\* |value - mean| / stddev > 3 for a parsed cell, mean and population
\* stddev over all parsed cells of the column in the raw dataset:
\* n*(n*x - sum)^2 > 9 * sum_j (n*x_j - sum)^2 ; false when stddev = 0
RawCellBeyond3(r, c) ==
    /\ IsNumeral(r[c])
    /\ Len(RawColumn(c)) * Dev(RawColumn(c), Numerals[r[c]])
                         * Dev(RawColumn(c), Numerals[r[c]])
           > 9 * DevSq(RawColumn(c))

RawRowKept(r) ==
    \A c \in {"Temperature (c)", "Salinity (ppt)", "ODO mg/L"} :
        IsNumeral(r[c]) /\ ~RawCellBeyond3(r, c)

RawRowOutlier(r) ==
    \E c \in {"Temperature (c)", "Salinity (ppt)", "ODO mg/L"} : RawCellBeyond3(r, c)

\* the script has computed its report and cleaned frame and not yet renamed
Cleaned == pc \in {"cleaned", "cleared"}

\* C8: the report satisfies rows_total = rows_removed + rows_remaining with
\* rows_total the number of raw rows and rows_remaining the number of rows
\* of the cleaned dataset that is written out.
C8_ReportAddsUp ==
    Cleaned =>
        /\ report.rows_total = Len(RawRows)
        /\ report.rows_total = report.rows_removed + report.rows_remaining
        /\ report.rows_remaining = Len(df_clean)

\* C9: a raw row is in the cleaned dataset iff none of its three numeric
\* cells is null or unparseable and none has |value - mean| / stddev > 3.0,
\* mean and population stddev taken once per field over the non-null values
\* of the raw dataset; a field with stddev 0 and a null cell never mark a
\* row as an outlier; the cleaned rows keep their input order.
C9_CleanedRows ==
    Cleaned =>
        LET kept == SelectSeq(RawRows, RawRowKept)
        IN  /\ Len(df_clean) = Len(kept)
            /\ \A j \in DOMAIN kept :
                  /\ df_clean[j]["Date m/d/y"] = kept[j]["Date m/d/y"]
                  /\ \A c \in {"Temperature (c)", "Salinity (ppt)", "ODO mg/L"} :
                        df_clean[j][c] = [nan |-> FALSE, v |-> Numerals[kept[j][c]]]
            /\ report.rows_removed =
                  Cardinality({i \in DOMAIN RawRows : RawRowOutlier(RawRows[i])})

\* a run in which one row left as an outlier and others through the null-drop
C9_Witness ==
    /\ Cleaned
    /\ report.rows_removed = 1
    /\ Len(df_clean) < report.rows_remaining
    /\ \E i \in DOMAIN RawRows : RawRows[i]["Temperature (c)"] = "abc"
    /\ df_clean # <<>>

\* C10: every document an ingestion run persists carries the field names
\* temperature, salinity, odo, date, latitude and longitude, for both
\* entry points.
C10_FlatFieldNames ==
    \A i \in DOMAIN store :
        {"temperature", "salinity", "odo", "date", "latitude", "longitude"}
            \subseteq DOMAIN store[i]

\* the parsed values of column c over the rows of a dataset whose cell parses
ColumnOf(rows, c) ==
    LET present == SelectSeq(rows, LAMBDA r : IsNumeral(r[c]))
    IN  [i \in DOMAIN present |-> Numerals[present[i][c]]]

\* the row survives cleaning within the dataset it was read in
KeptIn(rows, r) ==
    \A c \in {"Temperature (c)", "Salinity (ppt)", "ODO mg/L"} :
        /\ IsNumeral(r[c])
        /\ Len(ColumnOf(rows, c)) * Dev(ColumnOf(rows, c), Numerals[r[c]])
                                  * Dev(ColumnOf(rows, c), Numerals[r[c]])
               <= 9 * DevSq(ColumnOf(rows, c))

\* the document a cleaned row is persisted as by either script
DocOf(e, r) ==
    IF e = "app"
    THEN [temperature |-> Numerals[r["Temperature (c)"]],
          salinity |-> Numerals[r["Salinity (ppt)"]],
          odo |-> Numerals[r["ODO mg/L"]],
          date |-> r["Date m/d/y"],
          latitude |-> r["Latitude"],
          longitude |-> r["Longitude"]]
    ELSE [c \in DOMAIN r |->
             IF c \in {"Temperature (c)", "Salinity (ppt)", "ODO mg/L"}
             THEN Numerals[r[c]] ELSE r[c]]

\* the cleaned rows of one run of script e over the files fs, as documents
RunDocs(e, fs) ==
    LET rows == ReadAll(fs)
        kept == SelectSeq(rows, LAMBDA r : KeptIn(rows, r))
    IN  [j \in DOMAIN kept |-> DocOf(e, kept[j])]

OneRunOrNothing ==
    \/ store = <<>>
    \/ \E e \in {"root", "app"}, fs \in FileSeqs : store = RunDocs(e, fs)

\* C11: ingestion replaces the store in two steps, clear then bulk insert:
\* through any sequence of runs, each failing before the clear, between the
\* clear and the insert, or not at all, the store holds nothing, the prior
\* contents or exactly the cleaned rows of one run, never a mix of two runs;
\* and a run that completes leaves exactly its own cleaned rows.
C11_ClearThenInsert ==
    /\ []OneRunOrNothing
    /\ [][(pc = "cleaned" /\ pc' = "cleared") => store' = <<>>]_vars
    /\ [][(pc = "cleared" /\ pc' = "idle") =>
             (store' = <<>> \/ store' = RunDocs(entry, csv_files))]_vars
    /\ [][InsertMany => store' = RunDocs(entry, csv_files)]_vars
    /\ [][(pc = "cleaned" /\ pc' = "idle") => store' = store]_vars

\* a second run has cleaned its data while the store still holds the rows
\* of an earlier, different run
C11_Witness ==
    /\ pc = "cleaned"
    /\ store # <<>>
    /\ df_clean # <<>>
    /\ store # RunDocs(entry, csv_files)
    /\ \E e \in {"root", "app"}, fs \in FileSeqs : store = RunDocs(e, fs)

====
